---- MODULE Spec2Model ----
(***************************************************************************)
(* A model of soatok/frost: the FROST(Ed25519, SHA-512) signing state      *)
(* machine (internal/frost.go), its helpers (internal/helpers.go) and the  *)
(* trusted dealer (trusteddealer).                                         *)
(*                                                                         *)
(* The prime-order group is modelled by the discrete logarithm of its      *)
(* elements: the element k stands for k*G, so that Add is addition and     *)
(* Mul is multiplication modulo the group order.  The order is scaled      *)
(* down from 2^252+... to the prime 257, which keeps the byte encoding of  *)
(* an identifier (little-endian, base 256) more than one byte wide.        *)
(***************************************************************************)
EXTENDS Integers, Sequences, FiniteSets

\* ------------------------------------------------------------------ bounds
\* Largest number of participants the dealer is asked for.
MaxN == 2
\* Dealer coefficients (uniform scalars) are drawn from 0..MaxCoeff.
MaxCoeff == 1
\* The random bytes of NonceGenerate are drawn from 0..MaxRand.
MaxRand == 1
\* Longest commitment list passed to Sign under free use of the API.
MaxList == 2
\* Most calls made on one State under free use of the API.
MaxCalls == 3

\* ------------------------------------------------- field and group layer
\* The order of the scalar field and of the group (scaled down).
Order == 257
\* The base of a byte.
ByteBase == 256

Nil == "nil"

\* A pointer is << >> (nil) or << v >>.
None == << >>
Some(v) == << v >>

Scalars == 0 .. (Order - 1)

ScalarAdd(a, b) == (a + b) % Order
ScalarSub(a, b) == (a - b + Order) % Order
ScalarMul(a, b) == (a * b) % Order

RECURSIVE ScalarExp(_, _)
ScalarExp(a, k) ==
  IF k = 0 THEN 1 % Order
  ELSE IF k % 2 = 0 THEN ScalarExp((a * a) % Order, k \div 2)
  ELSE (a * ScalarExp((a * a) % Order, k \div 2)) % Order

\* Scalar.Invert: a^(Order-2); the inverse of 0 is 0.
ScalarInvert(a) == ScalarExp(a, Order - 2)

\* Scalar.Bytes: canonical little-endian encoding (two bytes in the model).
ScalarBytes(a) == << a % ByteBase, a \div ByteBase >>

\* NewScalarFromBigInt: the scalar representing a small integer.
NewScalarFromBigInt(i) == i % Order

\* Element arithmetic on discrete logarithms; ElementBaseMul is Mul(s, nil).
ElementAdd(p, q) == (p + q) % Order
ElementMul(s, p) == (s * p) % Order
ElementBaseMul(s) == s % Order
ElementIdentity == 0
ElementBytes(p) == << p % ByteBase, p \div ByteBase >>

\* bytes.Compare(a, b) < 0: lexicographic order on byte strings.
RECURSIVE BytesLess(_, _)
BytesLess(a, b) ==
  IF b = << >> THEN FALSE
  ELSE IF a = << >> THEN TRUE
  ELSE IF Head(a) # Head(b) THEN Head(a) < Head(b)
  ELSE BytesLess(Tail(a), Tail(b))

\* ------------------------------------------------------------ ciphersuite
\* The context string and the domain separation tags, shortened.
ContextString == << 70, 82 >>
TagRho == << 114 >>
TagNonce == << 110 >>
TagMsg == << 109 >>
TagCom == << 99 >>

\* sha512: a deterministic mixing function with a two-byte digest.
RECURSIVE Sha512Mix(_, _)
Sha512Mix(h, m) ==
  IF m = << >> THEN h
  ELSE Sha512Mix((h * 33 + Head(m) + 1) % 65521, Tail(m))

Sha512(m) ==
  LET h == Sha512Mix(5381, m) IN << h % ByteBase, h \div ByteBase >>

\* hashToScalar: SetUniformBytes, the wide reduction mod Order.
hashToScalar(d) == (d[1] + ByteBase * d[2]) % Order

H1(m) == hashToScalar(Sha512(ContextString \o TagRho \o m))
H2(m) == hashToScalar(Sha512(m))
H3(m) == hashToScalar(Sha512(ContextString \o TagNonce \o m))
H4(m) == Sha512(ContextString \o TagMsg \o m)
H5(m) == Sha512(ContextString \o TagCom \o m)

\* ---------------------------------------------------------------- helpers
Ok(v) == [ok |-> TRUE, val |-> v, err |-> Nil]
Err(e) == [ok |-> FALSE, val |-> Nil, err |-> e]

\* NonceGenerate: H3(random bytes || secret), r the random bytes read.
NonceGenerate(r, secret) == H3(<< r >> \o ScalarBytes(secret))

\* A duplicate check that finds nothing.
HasDuplicateUnchecked(L) == FALSE

HasDuplicate(L) ==
  \E i \in 1 .. Len(L) : \E j \in 1 .. Len(L) : i # j /\ L[i] = L[j]

RECURSIVE InterpolateLoopSwapped(_, _, _, _)
\* An interpolation loop whose denominator takes xi - xj.
InterpolateLoopSwapped(L, xi, num, den) ==
  IF L = << >> THEN << num, den >>
  ELSE IF Head(L) = xi THEN InterpolateLoopSwapped(Tail(L), xi, num, den)
  ELSE InterpolateLoopSwapped(Tail(L), xi, ScalarMul(num, Head(L)),
                              ScalarMul(den, ScalarSub(xi, Head(L))))

RECURSIVE InterpolateLoop(_, _, _, _)
\* The loop of DeriveInterpolatingValue over L: <<numerator, denominator>>.
InterpolateLoop(L, xi, num, den) ==
  IF L = << >> THEN << num, den >>
  ELSE IF Head(L) = xi THEN InterpolateLoop(Tail(L), xi, num, den)
  ELSE InterpolateLoop(Tail(L), xi, ScalarMul(num, Head(L)),
                       ScalarMul(den, ScalarSub(Head(L), xi)))

\* An interpolation that does not look for xi in L.
DeriveInterpolatingValueUnchecked(L, xi) ==
  IF HasDuplicate(L) THEN Err("duplicate value in L")
  ELSE LET nd == InterpolateLoop(L, xi, 1, 1)
       IN Ok(ScalarMul(nd[1], ScalarInvert(nd[2])))

DeriveInterpolatingValue(L, xi) ==
  IF ~ \E k \in 1 .. Len(L) : L[k] = xi THEN Err("xi not in L")
  ELSE IF HasDuplicate(L) THEN Err("duplicate value in L")
  ELSE LET nd == InterpolateLoop(L, xi, 1, 1)
       IN Ok(ScalarMul(nd[1], ScalarInvert(nd[2])))

\* The less function of both sort.Slice calls.
IdentifierLess(c1, c2) ==
  BytesLess(ScalarBytes(c1.Identifier), ScalarBytes(c2.Identifier))

IsSortedByIdentifier(C) ==
  \A i \in 1 .. Len(C) : \A j \in 1 .. Len(C) :
    i < j => ~ IdentifierLess(C[j], C[i])

SlicePermutations(C) ==
  { [k \in 1 .. Len(C) |-> C[p[k]]] :
      p \in { q \in [1 .. Len(C) -> 1 .. Len(C)] :
                \A a \in 1 .. Len(C) : \A b \in 1 .. Len(C) :
                  a # b => q[a] # q[b] } }

\* A sort that leaves the slice as it was passed.
SortSkipped(C) == { C }

\* sort.Slice is not stable: every sorted permutation is a possible outcome.
SortOutcomes(C) == { p \in SlicePermutations(C) : IsSortedByIdentifier(p) }

RECURSIVE EncodeLoop(_)
EncodeLoop(C) ==
  IF C = << >> THEN << >>
  ELSE ScalarBytes(Head(C).Identifier) \o ElementBytes(Head(C).Hiding)
       \o ElementBytes(Head(C).Binding) \o EncodeLoop(Tail(C))

\* EncodeGroupCommitmentList on a slice whose in-place sort ended as sorted.
EncodeGroupCommitmentList(sorted) == EncodeLoop(sorted)

\* ParticipantsFromCommitmentList on a slice whose in-place sort ended as sorted.
ParticipantsFromCommitmentList(sorted) ==
  [k \in 1 .. Len(sorted) |-> sorted[k].Identifier]

BindingFactorForParticipant(bindingFactors, identifier) ==
  IF \E k \in 1 .. Len(bindingFactors) : bindingFactors[k].Identifier = identifier
  THEN Ok(bindingFactors[CHOOSE k \in 1 .. Len(bindingFactors) :
            /\ bindingFactors[k].Identifier = identifier
            /\ \A j \in 1 .. (k - 1) : bindingFactors[j].Identifier # identifier].Factor)
  ELSE Err("participant not found")

\* ComputeBindingFactors; sorted is the slice as EncodeGroupCommitmentList left it.
ComputeBindingFactors(groupPublicKey, sorted, msg) ==
  LET rhoInputPrefix == ElementBytes(groupPublicKey) \o H4(msg)
                        \o H5(EncodeGroupCommitmentList(sorted))
  IN [k \in 1 .. Len(sorted) |->
        [Identifier |-> sorted[k].Identifier,
         Factor |-> H1(rhoInputPrefix \o ScalarBytes(sorted[k].Identifier))]]

RECURSIVE GroupCommitmentLoop(_, _, _)
GroupCommitmentLoop(C, bindingFactors, acc) ==
  IF C = << >> THEN Ok(acc)
  ELSE LET bf == BindingFactorForParticipant(bindingFactors, Head(C).Identifier)
       IN IF ~ bf.ok THEN Err(bf.err)
          ELSE GroupCommitmentLoop(Tail(C), bindingFactors,
                 ElementAdd(ElementAdd(acc, Head(C).Hiding),
                            ElementMul(bf.val, Head(C).Binding)))

\* A group commitment that is refused when two commitments share an identifier.
ComputeGroupCommitmentDistinct(commitments, bindingFactors) ==
  IF \E a \in 1 .. Len(commitments) : \E b \in 1 .. Len(commitments) :
       a # b /\ commitments[a].Identifier = commitments[b].Identifier
  THEN Err("duplicate identifier")
  ELSE GroupCommitmentLoop(commitments, bindingFactors, ElementIdentity)

ComputeGroupCommitment(commitments, bindingFactors) ==
  GroupCommitmentLoop(commitments, bindingFactors, ElementIdentity)

ComputeChallenge(groupCommitment, groupPublicKey, msg) ==
  H2(ElementBytes(groupCommitment) \o ElementBytes(groupPublicKey) \o msg)

\* --------------------------------------------------------- trusted dealer
RECURSIVE HornerLoop(_, _, _, _)
HornerLoop(x, coeffs, i, value) ==
  IF i = 0 THEN value
  ELSE HornerLoop(x, coeffs, i - 1, ScalarAdd(ScalarMul(value, x), coeffs[i]))

\* Horner's method run from the lowest coefficient up.
polynomialEvaluateAscending(x, coeffs) ==
  HornerLoop(x, [k \in 1 .. Len(coeffs) |-> coeffs[Len(coeffs) + 1 - k]], Len(coeffs), 0)

\* polynomialEvaluate: Horner's method from the highest coefficient down.
polynomialEvaluate(x, coeffs) == HornerLoop(x, coeffs, Len(coeffs), 0)

\* secretShareShard: the shares f(1) .. f(n) of fullCoefficients = <<s>> \o coefficients.
secretShareShard(s, coefficients, maxParticipants) ==
  LET fullCoefficients == << s >> \o coefficients
  IN [secretKeyShares |->
        [i \in 1 .. maxParticipants |->
           [Identifier |-> NewScalarFromBigInt(i),
            Scalar |-> polynomialEvaluate(NewScalarFromBigInt(i), fullCoefficients)]],
      fullCoefficients |-> fullCoefficients]

vssCommit(coeffs) == [k \in 1 .. Len(coeffs) |-> ElementBaseMul(coeffs[k])]

RECURSIVE VssSum(_, _, _, _)
\* The inner loop of VssVerify and DeriveGroupInfo: sum of i^j * vssCommitment[j], j < t.
VssSum(iScalar, vssCommitment, j, minParticipants) ==
  IF j >= minParticipants THEN ElementIdentity
  ELSE ElementAdd(ElementMul(NewScalarFromBigInt(ScalarExp(iScalar, j)),
                             vssCommitment[j + 1]),
                  VssSum(iScalar, vssCommitment, j + 1, minParticipants))

VssVerify(share, vssCommitment, minParticipants) ==
  LET s_i == ElementBaseMul(share.Scalar)
      s_i_prime == VssSum(share.Identifier, vssCommitment, 0, minParticipants)
  IN Ok(s_i = s_i_prime)

\* A DeriveGroupInfo that numbers the participants from 2.
DeriveGroupInfoShifted(maxParticipants, minParticipants, vssCommitment) ==
  [groupPublicKey |-> vssCommitment[1],
   participants |->
     [i \in 1 .. maxParticipants |->
        [Identifier |-> NewScalarFromBigInt(i + 1),
         PublicKeyShare |-> VssSum(NewScalarFromBigInt(i + 1), vssCommitment, 0,
                                   minParticipants)]]]

DeriveGroupInfo(maxParticipants, minParticipants, vssCommitment) ==
  [groupPublicKey |-> vssCommitment[1],
   participants |->
     [i \in 1 .. maxParticipants |->
        [Identifier |-> NewScalarFromBigInt(i),
         PublicKeyShare |-> VssSum(NewScalarFromBigInt(i), vssCommitment, 0,
                                   minParticipants)]]]

\* TrustedDealer.Keygen with the random draws secretKey and coefficients given.
Keygen(maxParticipants, minParticipants, secretKey, coefficients) ==
  LET shard == secretShareShard(secretKey, coefficients, maxParticipants)
      vssCommitment == vssCommit(shard.fullCoefficients)
      info == DeriveGroupInfo(maxParticipants, minParticipants, vssCommitment)
  IN [ParticipantPrivateKeys |-> shard.secretKeyShares,
      Participants |-> info.participants,
      GroupPublicKey |-> info.groupPublicKey,
      VssCommitment |-> vssCommitment]

\* The random draws of one Keygen(n, t): t uniform scalars.
KeygenDraws(minParticipants) == [1 .. minParticipants -> 0 .. MaxCoeff]

\* ---------------------------------------------------- signing state machine
\* The outcome of a call: "ok" (err == nil), "err" (an error value) or "panic".
Returned(state, out) == [state |-> state, kind |-> "ok", out |-> out, err |-> Nil]
Failed(state, e) == [state |-> state, kind |-> "err", out |-> None, err |-> e]
Panicked(state) == [state |-> state, kind |-> "panic", out |-> None, err |-> "nil pointer dereference"]

\* A constructor that starts with the identity as group commitment.
NewStateWithGroupCommitment(participants, groupKey, msg, mySecretShare) ==
  [Participants |-> participants,
   GroupKey |-> groupKey,
   Message |-> msg,
   Commitments |-> None,
   MyIdentifier |-> IF mySecretShare = None THEN None
                    ELSE Some(mySecretShare[1].Identifier),
   MySecretShare |-> mySecretShare,
   MyNonce |-> None,
   MyCommitment |-> None,
   bindingFactors |-> None,
   groupCommitment |-> Some(ElementIdentity),
   challenge |-> None]

\* frost.NewState and internal.NewState; mySecretShare is a pointer.
NewState(participants, groupKey, msg, mySecretShare) ==
  [Participants |-> participants,
   GroupKey |-> groupKey,
   Message |-> msg,
   Commitments |-> None,
   MyIdentifier |-> IF mySecretShare = None THEN None
                    ELSE Some(mySecretShare[1].Identifier),
   MySecretShare |-> mySecretShare,
   MyNonce |-> None,
   MyCommitment |-> None,
   bindingFactors |-> None,
   groupCommitment |-> None,
   challenge |-> None]

\* The outcomes of the two rand.Read calls of one Commit: a failure, or two reads
\* that agree or differ.
RandReads ==
  { [ok |-> TRUE, r1 |-> a, r2 |-> a + d] : a \in 0 .. MaxRand, d \in 0 .. 1 }
  \cup { [ok |-> FALSE, r1 |-> 0, r2 |-> 0] }

\* State.Commit.
Commit(s, rnd) ==
  IF s.MySecretShare = None THEN Panicked(s)
  ELSE IF ~ rnd.ok THEN Failed(s, "rand.Read")
  ELSE LET hidingNonce == NonceGenerate(rnd.r1, s.MySecretShare[1].Scalar)
           bindingNonce == NonceGenerate(rnd.r2, s.MySecretShare[1].Scalar)
           commitment == [Identifier |-> s.MyIdentifier[1],
                          Hiding |-> ElementBaseMul(hidingNonce),
                          Binding |-> ElementBaseMul(bindingNonce)]
       IN Returned([s EXCEPT !.MyNonce = Some([Hiding |-> hidingNonce,
                                                Binding |-> bindingNonce]),
                             !.MyCommitment = Some(commitment)],
                   Some(commitment))

\* A signature share without the interpolating value: d + e*rho + s*c.
SignatureShareNoLambda(nonce, bindingFactor, lambda_i, secret, challenge) ==
  ScalarAdd(ScalarAdd(nonce.Hiding, ScalarMul(nonce.Binding, bindingFactor)),
            ScalarMul(secret, challenge))

\* The signature share of State.Sign: d + e*rho + lambda*s*c.
SignatureShareValue(nonce, bindingFactor, lambda_i, secret, challenge) ==
  ScalarAdd(ScalarAdd(nonce.Hiding, ScalarMul(nonce.Binding, bindingFactor)),
            ScalarMul(ScalarMul(lambda_i, secret), challenge))

\* State.Sign on a slice that the sort of EncodeGroupCommitmentList leaves as
\* sorted1 and the sort of ParticipantsFromCommitmentList as sorted2.
Sign(s, sorted1, sorted2) ==
  LET bindingFactors == ComputeBindingFactors(s.GroupKey, sorted1, s.Message)
      gc == ComputeGroupCommitment(sorted1, bindingFactors)
      s1 == [s EXCEPT !.Commitments = Some(sorted1),
                      !.bindingFactors = Some(bindingFactors),
                      !.groupCommitment = IF gc.ok THEN Some(gc.val) ELSE None]
  IN IF ~ gc.ok THEN Failed(s1, gc.err)
     ELSE
       LET challenge == ComputeChallenge(gc.val, s.GroupKey, s.Message)
           s2 == [s1 EXCEPT !.challenge = Some(challenge)]
       IN IF s.MySecretShare = None THEN Returned(s2, None)
          ELSE
            LET s3 == [s2 EXCEPT !.Commitments = Some(sorted2)]
                lambda_i == DeriveInterpolatingValue(
                              ParticipantsFromCommitmentList(sorted2), s.MyIdentifier[1])
                bindingFactor == BindingFactorForParticipant(bindingFactors,
                                                             s.MyIdentifier[1])
            IN IF ~ lambda_i.ok THEN Failed(s3, lambda_i.err)
               ELSE IF ~ bindingFactor.ok THEN Failed(s3, bindingFactor.err)
               ELSE IF s.MyNonce = None THEN Panicked(s3)
               ELSE Returned(s3,
                      Some([Identifier |-> s.MyIdentifier[1],
                            Share |-> SignatureShareValue(s.MyNonce[1], bindingFactor.val,
                                        lambda_i.val, s.MySecretShare[1].Scalar,
                                        challenge)]))

\* A sum that stops after the first share.
SumSharesFirstOnly(shares) ==
  IF shares = << >> THEN 0 ELSE Head(shares).Share

RECURSIVE SumShares(_)
SumShares(shares) ==
  IF shares = << >> THEN 0
  ELSE ScalarAdd(Head(shares).Share, SumShares(Tail(shares)))

\* An Aggregate that returns the identity as R.
AggregateIdentity(s, shares) ==
  IF s.groupCommitment = None THEN Failed(s, "group commitment not computed")
  ELSE Returned(s, Some([R |-> ElementIdentity, Z |-> SumShares(shares)]))

\* An Aggregate without the check of the group commitment.
AggregateUnchecked(s, shares) ==
  Returned(s, Some([R |-> IF s.groupCommitment = None THEN ElementIdentity
                          ELSE s.groupCommitment[1],
                    Z |-> SumShares(shares)]))

\* State.Aggregate.
Aggregate(s, shares) ==
  IF s.groupCommitment = None THEN Failed(s, "group commitment not computed")
  ELSE Returned(s, Some([R |-> s.groupCommitment[1], Z |-> SumShares(shares)]))

\* State.SetGroupCommitment; e is a pointer.
SetGroupCommitment(s, e) == [s EXCEPT !.groupCommitment = e]

\* The first entry of a slice with the identifier, as a pointer.
FindByIdentifier(slice, identifier) ==
  IF \E k \in 1 .. Len(slice) : slice[k].Identifier = identifier
  THEN Some(slice[CHOOSE k \in 1 .. Len(slice) :
              /\ slice[k].Identifier = identifier
              /\ \A j \in 1 .. (k - 1) : slice[j].Identifier # identifier])
  ELSE None

\* A comparison that leaves the interpolating value out of the right-hand side.
ShareEquationNoLambda(share, comm, bindingFactor, lambda_i, challenge, publicKeyShare) ==
  LET commShare == ElementAdd(ElementMul(bindingFactor, comm.Binding), comm.Hiding)
      l == ElementBaseMul(share.Share)
      r == ElementAdd(ElementMul(challenge, publicKeyShare), commShare)
  IN ElementBytes(l) = ElementBytes(r)

\* The comparison of State.VerifySignatureShare: l == r.
ShareEquationHolds(share, comm, bindingFactor, lambda_i, challenge, publicKeyShare) ==
  LET commShare == ElementAdd(ElementMul(bindingFactor, comm.Binding), comm.Hiding)
      l == ElementBaseMul(share.Share)
      r == ElementAdd(ElementMul(ScalarMul(challenge, lambda_i), publicKeyShare),
                      commShare)
  IN ElementBytes(l) = ElementBytes(r)

\* State.VerifySignatureShare; sorted is what the sort of
\* ParticipantsFromCommitmentList leaves of s.Commitments.
VerifySignatureShare(s, share, sorted) ==
  LET p == FindByIdentifier(s.Participants, share.Identifier)
      comm == IF s.Commitments = None THEN None
              ELSE FindByIdentifier(s.Commitments[1], share.Identifier)
  IN IF p = None THEN Failed(s, "participant not found")
     ELSE IF comm = None THEN Failed(s, "commitment not found")
     ELSE
       LET bindingFactor == BindingFactorForParticipant(s.bindingFactors[1],
                                                        share.Identifier)
           s1 == [s EXCEPT !.Commitments = Some(sorted)]
           lambda_i == DeriveInterpolatingValue(
                         ParticipantsFromCommitmentList(sorted), share.Identifier)
       IN IF ~ bindingFactor.ok THEN Failed(s, bindingFactor.err)
          ELSE IF ~ lambda_i.ok THEN Failed(s1, lambda_i.err)
          ELSE IF s.challenge = None THEN Panicked(s1)
          ELSE Returned(s1, Some(ShareEquationHolds(share, comm[1], bindingFactor.val,
                                   lambda_i.val, s.challenge[1], p[1].PublicKeyShare)))

\* ed25519.Verify of the standard library: z*G == R + H2(R || PK || msg)*PK.
Ed25519Verify(publicKey, message, sig) ==
  ElementBaseMul(sig.Z) =
    ElementAdd(sig.R,
               ElementMul(H2(ElementBytes(sig.R) \o ElementBytes(publicKey) \o message),
                          publicKey))

\* ------------------------------------------------------------------ state
VARIABLES
  dealer,     \* pointer to the dealer's draws and its KeygenOutput
  st,         \* st[x]: pointer to the State of party x; party 0 holds no share
  hist,       \* hist[x]: what has been called on st[x] so far
  last,       \* the last call and what it returned
  sharesOut,  \* sharesOut[i]: pointer to the share the last Sign of signer i returned
  pc,         \* the place of the integration test, "api" under free use
  run         \* the locals of the integration test, or of the callers of the helpers

vars == << dealer, st, hist, last, sharesOut, pc, run >>

Parties == 0 .. MaxN

\* The message of the integration test, shortened.
TestMessage == << 105, 116 >>

NoCall == [op |-> "none", x |-> 0, kind |-> "ok", err |-> Nil, out |-> None, arg |-> None]
\* committed: a Commit returned a commitment; sign: how the last Sign ended
\* ("none" before the first);
\* nonceShares: shares returned since the last Commit (2 stands for two or more);
\* setGC: SetGroupCommitment was called.
\* calls: the calls made.
NoHist == [committed |-> FALSE, sign |-> "none", nonceShares |-> 0, setGC |-> FALSE,
           calls |-> 0]
NoRun == [order |-> << >>, agg |-> 0, commitments |-> << >>, shares |-> << >>,
          vss |-> << >>, checked |-> << >>, sig |-> None, valid |-> None]

Out == dealer[1].out
NumParties == Len(Out.Participants)

Called(op, x, res, arg) ==
  [op |-> op, x |-> x, kind |-> res.kind, err |-> res.err, out |-> res.out, arg |-> arg]

\* The pointer to the secret share of party x; party 0 is the aggregator.
ShareOf(out, x) == IF x = 0 THEN None ELSE Some(out.ParticipantPrivateKeys[x])

\* ------------------------------------------------- calls on one State
\* s.Commit() on st[x].
CallCommit(x, rnd) ==
  \E res \in { Commit(st[x][1], rnd) } :
     /\ st' = [st EXCEPT ![x] = Some(res.state)]
     /\ last' = Called("Commit", x, res, None)
     /\ hist' = IF res.kind = "ok"
                THEN [hist EXCEPT ![x].committed = TRUE, ![x].nonceShares = 0,
                                  ![x].calls = @ + 1]
                ELSE [hist EXCEPT ![x].calls = @ + 1]
     /\ UNCHANGED sharesOut

\* s.Sign(C) on st[x].
CallSign(x, C, sorted1, sorted2) ==
  \E res \in { Sign(st[x][1], sorted1, sorted2) } :
   LET shared == res.kind = "ok" /\ res.out # None
   IN
     /\ st' = [st EXCEPT ![x] = Some(res.state)]
     /\ last' = Called("Sign", x, res, Some(C))
     /\ hist' = [hist EXCEPT ![x].sign = res.kind,
                             ![x].nonceShares = IF shared /\ @ < 2 THEN @ + 1 ELSE @,
                             ![x].calls = @ + 1]
     /\ sharesOut' = IF shared THEN [sharesOut EXCEPT ![x] = res.out] ELSE sharesOut

\* s.Aggregate(shares) on st[x].
CallAggregate(x, shares) ==
  \E res \in { Aggregate(st[x][1], shares) } :
     /\ st' = [st EXCEPT ![x] = Some(res.state)]
     /\ last' = Called("Aggregate", x, res, Some(shares))
     /\ hist' = [hist EXCEPT ![x].calls = @ + 1]
     /\ UNCHANGED sharesOut

\* s.SetGroupCommitment(e) on st[x].
CallSetGroupCommitment(x, e) ==
  /\ st' = [st EXCEPT ![x] = Some(SetGroupCommitment(st[x][1], e))]
  /\ last' = [NoCall EXCEPT !.op = "SetGroupCommitment", !.x = x, !.arg = e]
  /\ hist' = [hist EXCEPT ![x].setGC = TRUE, ![x].calls = @ + 1]
  /\ UNCHANGED sharesOut

\* s.VerifySignatureShare(share) on st[x].
CallVerifySignatureShare(x, share, sorted) ==
  \E res \in { VerifySignatureShare(st[x][1], share, sorted) } :
     /\ st' = [st EXCEPT ![x] = Some(res.state)]
     /\ last' = Called("VerifySignatureShare", x, res, Some(share))
     /\ hist' = [hist EXCEPT ![x].calls = @ + 1]
     /\ UNCHANGED sharesOut

\* The State objects that exist.
Created == { x \in Parties : st[x] # None }

\* The State objects that take another call under free use of the API.
Callable == { x \in Created : hist[x].calls < MaxCalls }

\* ------------------------------------------------- free use of the API
\* One State, of a signer or of the aggregator, is called in any order with any
\* arguments; the other participants are the data they send.

\* The commitment of a peer: group elements the State cannot tell from d*G, e*G.
PeerCommitment(i) ==
  [Identifier |-> NewScalarFromBigInt(i), Hiding |-> ElementBaseMul(1),
   Binding |-> ElementBaseMul(2)]

\* A second commitment sent under the identifier of the second participant.
ReplayedCommitment ==
  [Identifier |-> NewScalarFromBigInt(2), Hiding |-> ElementBaseMul(2),
   Binding |-> ElementBaseMul(1)]

\* The share of a peer, as received.
PeerShare(i) == [Identifier |-> NewScalarFromBigInt(i), Share |-> 1]

\* The commitments the States hold now.
HeldCommitments ==
  { st[i][1].MyCommitment[1] : i \in { j \in Created : st[j][1].MyCommitment # None } }

\* What a caller can put into a commitment list: the commitments held, a
\* commitment of a peer under the first two identifiers, the signer's own too, and
\* a second commitment under the second identifier.
CommitmentPool ==
  HeldCommitments \cup { PeerCommitment(1), PeerCommitment(2), ReplayedCommitment }

\* The slices that hold the elements of T once each, in descending order of identifier.
DescendingSlices(T) ==
  { p \in [1 .. Cardinality(T) -> T] :
      /\ \A a \in 1 .. Cardinality(T) : \A b \in 1 .. Cardinality(T) :
           a # b => p[a] # p[b]
      /\ \A a \in 1 .. Cardinality(T) : \A b \in 1 .. Cardinality(T) :
           a < b => ~ IdentifierLess(p[a], p[b]) }

\* The lists passed to Sign: up to MaxList commitments of the pool, unsorted (the
\* sort of Sign is what orders them).
CommitmentLists ==
  { CHOOSE p \in DescendingSlices(T) : TRUE :
      T \in { U \in SUBSET CommitmentPool : Cardinality(U) <= MaxList } }

ReturnedShares == { sharesOut[i][1] : i \in { j \in 1 .. MaxN : sharesOut[j] # None } }

\* The signature shares a caller can pass on: those returned, each also with a
\* changed scalar, the share of the second participant and a share of no
\* participant.
ShareInputs ==
  ReturnedShares
  \cup { [sh EXCEPT !.Share = ScalarAdd(@, 1)] : sh \in ReturnedShares }
  \cup { PeerShare(2), PeerShare(NumParties + 1) }

\* The share lists passed to Aggregate: none, one or two of the shares returned and
\* of the share of a peer.
ShareLists ==
  LET received == ReturnedShares \cup { PeerShare(1) }
  IN { << >> } \cup { << a >> : a \in received }
     \cup { << a, b >> : a \in received, b \in received }

ElementInputs == { None, Some(ElementIdentity), Some(ElementBaseMul(1)) }

HarnessIdle == UNCHANGED << dealer, pc, run >>

ApiCommit ==
  /\ pc = "api"
  /\ \E x \in Callable : \E rnd \in RandReads : CallCommit(x, rnd)
  /\ HarnessIdle

ApiSign ==
  /\ pc = "api"
  /\ \E x \in Callable : \E C \in CommitmentLists :
       \E sorted1 \in SortOutcomes(C) :
         \E sorted2 \in IF st[x][1].MySecretShare = None THEN { sorted1 }
                        ELSE SortOutcomes(sorted1) :
           CallSign(x, C, sorted1, sorted2)
  /\ HarnessIdle

ApiAggregate ==
  /\ pc = "api"
  /\ \E x \in Callable : \E shares \in ShareLists : CallAggregate(x, shares)
  /\ HarnessIdle

ApiSetGroupCommitment ==
  /\ pc = "api"
  /\ \E x \in Callable : \E e \in ElementInputs : CallSetGroupCommitment(x, e)
  /\ HarnessIdle

ApiVerifySignatureShare ==
  /\ pc = "api"
  /\ \E x \in Callable : \E share \in ShareInputs :
       \E sorted \in SortOutcomes(IF st[x][1].Commitments = None THEN << >>
                                  ELSE st[x][1].Commitments[1]) :
         CallVerifySignatureShare(x, share, sorted)
  /\ HarnessIdle

\* The draws of the dealer under free use of the API.
ApiDraws == [k \in 1 .. MaxN |-> MaxCoeff]

\* The parties whose State is called under free use of the API: the aggregator
\* and the first participant.
ApiParties == { 0, 1 }

\* After Keygen(MaxN, MaxN) and NewState for one party x.
Init ==
  \E x \in ApiParties :
    LET out == Keygen(MaxN, MaxN, ApiDraws[1], SubSeq(ApiDraws, 2, MaxN))
    IN /\ dealer = Some([n |-> MaxN, t |-> MaxN, draws |-> ApiDraws, out |-> out])
       /\ st = [y \in Parties |->
                  IF y # x THEN None
                  ELSE Some(NewState(out.Participants, out.GroupPublicKey, TestMessage,
                                     ShareOf(out, x)))]
       /\ hist = [y \in Parties |-> NoHist]
       /\ last = NoCall
       /\ sharesOut = [i \in 1 .. MaxN |-> None]
       /\ pc = "api"
       /\ run = NoRun

Next ==
  \/ ApiCommit
  \/ ApiSign
  \/ ApiAggregate
  \/ ApiSetGroupCommitment
  \/ ApiVerifySignatureShare

Spec == Init /\ [][Next]_vars

\* ------------------------------------------------- the integration test
\* TestTrustedDealer for any (n, t), any t or more of the signers and either kind
\* of aggregating State, followed by the verification loop of the README.

\* The ways to pick the signers: a set of t or more participants, in ascending or
\* in descending order of identifier.
SignerOrders ==
  { q \in UNION { [1 .. m -> 1 .. NumParties] : m \in dealer[1].t .. NumParties } :
      \/ \A a \in 1 .. Len(q) : \A b \in 1 .. Len(q) : a < b => q[a] < q[b]
      \/ \A a \in 1 .. Len(q) : \A b \in 1 .. Len(q) : a < b => q[a] > q[b] }

TestIdle == UNCHANGED << st, hist, last, sharesOut >>

\* td.Keygen(maxSigners, minSigners).
TestKeygen ==
  /\ pc = "keygen"
  /\ \E n \in 1 .. MaxN : \E t \in 1 .. n : \E draws \in KeygenDraws(t) :
       dealer' = Some([n |-> n, t |-> t, draws |-> draws,
                       out |-> Keygen(n, t, draws[1], SubSeq(draws, 2, t))])
  /\ pc' = "vss"
  /\ UNCHANGED run
  /\ TestIdle

\* One turn of the loop over keygen.ParticipantPrivateKeys that calls VssVerify.
TestVssVerify ==
  /\ pc = "vss"
  /\ \E res \in { VssVerify(Out.ParticipantPrivateKeys[Len(run.vss) + 1],
                            Out.VssCommitment, dealer[1].t) } :
       /\ run' = [run EXCEPT !.vss = Append(@, res)]
       /\ pc' = IF ~ (res.ok /\ res.val) THEN "failed"
                ELSE IF Len(run.vss) + 1 = NumParties THEN "select"
                ELSE "vss"
  /\ UNCHANGED dealer
  /\ TestIdle

\* The signers are picked and frost.NewState is called for each of them and for
\* the aggregator.
TestSelect ==
  /\ pc = "select"
  /\ \E order \in SignerOrders :
       /\ run' = [run EXCEPT !.order = order]
       /\ st' = [x \in Parties |->
                   IF x = 0 \/ \E k \in 1 .. Len(order) : order[k] = x
                   THEN Some(NewState(Out.Participants, Out.GroupPublicKey, TestMessage,
                                      ShareOf(Out, x)))
                   ELSE None]
  /\ pc' = "round1"
  /\ UNCHANGED << dealer, hist, last, sharesOut >>

\* Round 1: one turn of the loop that calls states[i].Commit().
TestRound1 ==
  /\ pc = "round1"
  /\ \E rnd \in RandReads : CallCommit(run.order[Len(run.commitments) + 1], rnd)
  /\ run' = IF last'.kind = "ok"
            THEN [run EXCEPT !.commitments = Append(@, last'.out[1])]
            ELSE run
  /\ pc' = IF last'.kind # "ok" THEN "failed"
           ELSE IF Len(run.commitments) + 1 = Len(run.order) THEN "round2"
           ELSE "round1"
  /\ UNCHANGED dealer

\* Round 2: one turn of the loop that calls states[i].Sign(commitments); the
\* slice is shared and is sorted in place.
TestRound2 ==
  /\ pc = "round2"
  /\ \E sorted1 \in SortOutcomes(run.commitments) :
       \E sorted2 \in SortOutcomes(sorted1) :
         /\ CallSign(run.order[Len(run.shares) + 1], run.commitments, sorted1, sorted2)
         /\ run' = [run EXCEPT !.commitments = sorted2,
                               !.shares = IF last'.out # None
                                          THEN Append(@, last'.out[1]) ELSE @]
  /\ pc' = IF last'.kind # "ok" \/ last'.out = None THEN "failed"
           ELSE IF Len(run.shares) + 1 = Len(run.order) THEN "aggsign"
           ELSE "round2"
  /\ UNCHANGED dealer

\* The State without a share calls Sign(commitments) and will aggregate.
TestAggregatorSign ==
  /\ pc = "aggsign"
  /\ \E sorted1 \in SortOutcomes(run.commitments) :
       /\ CallSign(0, run.commitments, sorted1, sorted1)
       /\ run' = [run EXCEPT !.commitments = sorted1, !.agg = 0]
  /\ pc' = IF last'.kind # "ok" THEN "failed" ELSE "check"
  /\ UNCHANGED dealer

\* The State of the first signer will aggregate, as state1 in TestFrostEd25519.
TestSignerAggregates ==
  /\ pc = "aggsign"
  /\ run' = [run EXCEPT !.agg = run.order[1]]
  /\ pc' = "check"
  /\ UNCHANGED dealer
  /\ TestIdle

\* One turn of the loop that calls VerifySignatureShare on a received share.
TestVerifyShare ==
  /\ pc = "check"
  /\ \E sorted \in SortOutcomes(st[run.agg][1].Commitments[1]) :
       CallVerifySignatureShare(run.agg, run.shares[Len(run.checked) + 1], sorted)
  /\ run' = [run EXCEPT !.checked = Append(@, [kind |-> last'.kind, out |-> last'.out])]
  /\ pc' = IF Len(run.checked) + 1 = Len(run.shares) THEN "aggregate" ELSE "check"
  /\ UNCHANGED dealer

\* aggState.Aggregate(shares).
TestAggregate ==
  /\ pc = "aggregate"
  /\ CallAggregate(run.agg, run.shares)
  /\ run' = [run EXCEPT !.sig = last'.out]
  /\ pc' = IF last'.kind # "ok" THEN "failed" ELSE "verify"
  /\ UNCHANGED dealer

\* ed25519.Verify(pubKeyBytes, message, sigBytes).
TestEd25519Verify ==
  /\ pc = "verify"
  /\ run' = [run EXCEPT !.valid = Some(Ed25519Verify(Out.GroupPublicKey, TestMessage,
                                                     run.sig[1]))]
  /\ pc' = "done"
  /\ UNCHANGED dealer
  /\ TestIdle

InitTest ==
  /\ dealer = None
  /\ st = [x \in Parties |-> None]
  /\ hist = [x \in Parties |-> NoHist]
  /\ last = NoCall
  /\ sharesOut = [i \in 1 .. MaxN |-> None]
  /\ pc = "keygen"
  /\ run = NoRun

NextTest ==
  \/ TestKeygen
  \/ TestVssVerify
  \/ TestSelect
  \/ TestRound1
  \/ TestRound2
  \/ TestAggregatorSign
  \/ TestSignerAggregates
  \/ TestVerifyShare
  \/ TestAggregate
  \/ TestEd25519Verify

SpecTest == InitTest /\ [][NextTest]_vars

\* ------------------------------------------------------------ properties
\* The State the last call was made on, and whether it is a signer's.
LastState == st[last.x][1]
LastOnSigner == st[last.x] # None /\ LastState.MySecretShare # None

\* C1: a ceremony of the integration test that reaches its end has a signature
\* that ed25519.Verify accepts under the dealer's group key, z*G == R + c*PK with
\* c = H2(R || PK || msg), and a ceremony stops early only when rand.Read fails
\* in a Commit.
C1_SignatureValid ==
  /\ pc = "done" => run.valid = Some(TRUE)
  /\ pc = "failed" => last.op = "Commit" /\ last.err = "rand.Read"

\* C1 happens: more signers than the threshold, in descending order, and the
\* State without a share aggregated a valid signature.
C1_Witness ==
  /\ pc = "done"
  /\ run.valid = Some(TRUE)
  /\ run.agg = 0
  /\ dealer[1].t >= 2
  /\ Len(run.order) >= 2
  /\ run.order[1] > run.order[2]

\* C2: once Sign has returned a share on a State, the State holds no nonce and
\* no further Sign on it returns a share, so no nonce pair enters two shares.
C2_NonceSingleUse ==
  \A x \in Created :
    hist[x].nonceShares >= 1 =>
      /\ st[x][1].MyNonce = None
      /\ hist[x].nonceShares <= 1

\* C2 fails: two shares were returned from the nonce pair of one Commit.
C2_NonceReused ==
  \E x \in Created : hist[x].nonceShares = 2 /\ st[x][1].MyNonce # None

C4_RecommitRejected ==
  [][\A x \in Created :
       (hist[x].committed /\ last'.op = "Commit" /\ last'.x = x
        /\ hist'[x].calls = hist[x].calls + 1) =>
         /\ last'.kind = "err"
         /\ st'[x][1].MyNonce = st[x][1].MyNonce
         /\ st'[x][1].MyCommitment = st[x][1].MyCommitment]_vars

\* C5: a Sign on a signer State that has committed, with a list whose entry under
\* the signer's identifier is not the commitment of that Commit, returns an
\* error and no share.
C5_OwnCommitmentChecked ==
  (/\ last.op = "Sign"
   /\ LastOnSigner
   /\ LastState.MyCommitment # None
   /\ \E k \in 1 .. Len(last.arg[1]) :
        /\ last.arg[1][k].Identifier = LastState.MyIdentifier[1]
        /\ last.arg[1][k] # LastState.MyCommitment[1]) =>
    (last.kind = "err" /\ last.out = None)

\* C5 fails: Sign returned a share on a list that holds, under the signer's
\* identifier, the commitment of a peer and not the signer's own.
C5_ForeignCommitmentSigned ==
  /\ last.op = "Sign"
  /\ LastOnSigner
  /\ LastState.MyCommitment # None
  /\ last.out # None
  /\ \A k \in 1 .. Len(last.arg[1]) : last.arg[1][k] # LastState.MyCommitment[1]

\* C6 as stated: an Aggregate on a State on which no Sign was called returns
\* the error of the missing group commitment and no signature.
C6_AggregateNeedsSign ==
  (last.op = "Aggregate" /\ hist[last.x].sign = "none") =>
    (last.kind = "err" /\ last.err = "group commitment not computed" /\ last.out = None)

\* C6 amended: an Aggregate on a State on which neither Sign nor
\* SetGroupCommitment was called returns the error of the missing group
\* commitment and no signature.
C6_AggregateNeedsGroupCommitment ==
  (last.op = "Aggregate" /\ hist[last.x].sign = "none" /\ ~ hist[last.x].setGC) =>
    (last.kind = "err" /\ last.err = "group commitment not computed" /\ last.out = None)

\* C6 happens: Aggregate is refused on a signer State that has only committed.
C6_Witness ==
  /\ last.op = "Aggregate"
  /\ hist[last.x].sign = "none"
  /\ ~ hist[last.x].setGC
  /\ hist[last.x].committed
  /\ last.kind = "err"

\* C7: a Commit on a State created without a secret share returns an error value
\* and leaves MyNonce and MyCommitment unset.
C7_CommitMissingShare ==
  (last.op = "Commit" /\ ~ LastOnSigner) =>
    /\ last.kind = "err"
    /\ LastState.MyNonce = None
    /\ LastState.MyCommitment = None

\* C7 fails: the Commit on the State without a share panicked.
C7_CommitPanicked ==
  last.op = "Commit" /\ ~ LastOnSigner /\ last.kind = "panic"

\* C8: every share that a signer of the ceremony produced by Commit and Sign on
\* the common commitment list is accepted by VerifySignatureShare on the
\* aggregating State: it returns true and no error.
C8_SharesVerify ==
  \A k \in 1 .. Len(run.checked) :
    run.checked[k].kind = "ok" /\ run.checked[k].out = Some(TRUE)

\* C8 happens: the State without a share has accepted the shares of two signers.
C8_Witness ==
  /\ run.agg = 0
  /\ Len(run.checked) >= 2
  /\ run.checked[2] = [kind |-> "ok", out |-> Some(TRUE)]
  /\ last.op = "VerifySignatureShare"

\* C9: on a State whose last Sign returned without error, VerifySignatureShare
\* returns an error exactly when the identifier of the share is missing from the
\* participants or from the commitment list, and a boolean otherwise.
C9_VerifyPartition ==
  (last.op = "VerifySignatureShare" /\ hist[last.x].sign = "ok") =>
    LET absent ==
          \/ FindByIdentifier(LastState.Participants, last.arg[1].Identifier) = None
          \/ FindByIdentifier(LastState.Commitments[1], last.arg[1].Identifier) = None
    IN /\ absent <=> last.kind = "err"
       /\ ~ absent => (last.kind = "ok" /\ last.out \in { Some(TRUE), Some(FALSE) })

\* C9 fails: the share of a participant listed twice in the commitment list is
\* answered with the error of the interpolation.
C9_DuplicateAnsweredWithError ==
  /\ last.op = "VerifySignatureShare"
  /\ hist[last.x].sign = "ok"
  /\ last.err = "duplicate value in L"
  /\ FindByIdentifier(LastState.Participants, last.arg[1].Identifier) # None
  /\ FindByIdentifier(LastState.Commitments[1], last.arg[1].Identifier) # None

\* C10: VssVerify returns true and no error for every share of every output of
\* Keygen(n, t) with 1 <= t <= n.
C10_VssVerifies ==
  \A k \in 1 .. Len(run.vss) : run.vss[k] = Ok(TRUE)

\* C10 happens: all the shares of a polynomial of degree one or more, with a
\* coefficient that is not zero, have been verified.
C10_Witness ==
  /\ dealer # None
  /\ dealer[1].t >= 2
  /\ dealer[1].draws[2] # 0
  /\ Len(run.vss) = dealer[1].n
  /\ run.vss[Len(run.vss)] = Ok(TRUE)

\* The sequences that list t of the dealer's n participants once each.
ThresholdLists ==
  { q \in [1 .. dealer[1].t -> 1 .. NumParties] :
      \A a \in 1 .. dealer[1].t : \A b \in 1 .. dealer[1].t : a # b => q[a] # q[b] }

RECURSIVE InterpolatedSum(_, _)
\* The sum of lambda_i * s_i over the participants q[1 .. k] of the list q.
InterpolatedSum(q, k) ==
  IF k = 0 THEN 0
  ELSE LET L == [j \in 1 .. Len(q) |-> Out.ParticipantPrivateKeys[q[j]].Identifier]
           share == Out.ParticipantPrivateKeys[q[k]]
       IN ScalarAdd(InterpolatedSum(q, k - 1),
                    ScalarMul(DeriveInterpolatingValue(L, share.Identifier).val,
                              share.Scalar))

\* Keygen has returned and the caller has not yet used its output, which no
\* later step changes.
KeygenReturned == dealer # None /\ pc = "vss" /\ Len(run.vss) = 0

\* C11: in every output of Keygen(n, t), as Keygen returns it, the public key
\* share of participant i is s_i*G, and over any t of the identifiers the shares
\* interpolate to the dealer's secret: the sum of
\* DeriveInterpolatingValue(L, i)*s_i is a0.
C11_SharesInterpolate ==
  KeygenReturned =>
    /\ \A i \in 1 .. NumParties :
         Out.Participants[i].PublicKeyShare =
           ElementBaseMul(Out.ParticipantPrivateKeys[i].Scalar)
    /\ \A q \in ThresholdLists :
         /\ \A k \in 1 .. Len(q) :
              DeriveInterpolatingValue(
                [j \in 1 .. Len(q) |-> Out.ParticipantPrivateKeys[q[j]].Identifier],
                Out.ParticipantPrivateKeys[q[k]].Identifier).ok
         /\ InterpolatedSum(q, Len(q)) = dealer[1].draws[1] % Order

\* C11 happens: a dealer polynomial of degree one with a secret and a slope that
\* are not zero has been dealt.
C11_Witness ==
  /\ dealer # None
  /\ dealer[1].t = 2
  /\ dealer[1].draws[1] # 0
  /\ dealer[1].draws[2] # 0
  /\ pc = "vss"

\* ------------------------------------------------- the helpers on one slice
\* A caller holds one commitment slice and calls the exported helpers on it in
\* any order, passing the slice as it is or rearranged. run.slice is the slice,
\* run.first the first call of each helper on it: its argument and its result.

\* The smallest identifier whose encoding has a second byte that is not zero.
WideIdentifier == ByteBase

\* The commitments of the slice: under the identifiers 1, 2 and WideIdentifier,
\* and a second one under the identifier 2.
HelperPool ==
  { PeerCommitment(1), PeerCommitment(2), ReplayedCommitment,
    PeerCommitment(WideIdentifier) }

\* The slices of up to MaxList commitments of the pool, in any order.
HelperSlices ==
  UNION { { q \in [1 .. m -> HelperPool] :
              \A a \in 1 .. m : \A b \in 1 .. m : a # b => q[a] # q[b] } :
          m \in 0 .. MaxList }

\* The identifiers asked of DeriveInterpolatingValue; 3 is in no slice.
HelperIdentifiers == { 1, 2, 3, WideIdentifier }

\* The group key the binding factors are computed under.
HelperGroupKey == ElementBaseMul(1)

IdentifiersOf(C) == [k \in 1 .. Len(C) |-> C[k].Identifier]

HelperIdle == UNCHANGED << dealer, st, hist, sharesOut, pc >>

HelperCall(op, arg, kind, err, out) ==
  [op |-> op, x |-> 0, kind |-> kind, err |-> err, out |-> out, arg |-> arg]

\* The caller rearranges the slice before the next call.
DoPermute ==
  /\ pc = "helpers"
  /\ \E C \in SlicePermutations(run.slice) :
       /\ C # run.slice
       /\ run' = [run EXCEPT !.slice = C]
       /\ last' = HelperCall("permute", Some(run.slice), "ok", Nil, None)
  /\ HelperIdle

\* EncodeGroupCommitmentList(slice).
DoEncodeGroupCommitmentList ==
  /\ pc = "helpers"
  /\ \E sorted \in SortOutcomes(run.slice) :
       \E out \in { Some(EncodeGroupCommitmentList(sorted)) } :
         /\ run' = [run EXCEPT !.slice = sorted,
                               !.first.encoded =
                                 IF @ = None THEN Some([arg |-> run.slice, out |-> out])
                                 ELSE @]
         /\ last' = HelperCall("EncodeGroupCommitmentList", Some(run.slice), "ok", Nil, out)
  /\ HelperIdle

\* ParticipantsFromCommitmentList(slice).
DoParticipantsFromCommitmentList ==
  /\ pc = "helpers"
  /\ \E sorted \in SortOutcomes(run.slice) :
       /\ run' = [run EXCEPT !.slice = sorted]
       /\ last' = HelperCall("ParticipantsFromCommitmentList", Some(run.slice), "ok", Nil,
                             Some(ParticipantsFromCommitmentList(sorted)))
  /\ HelperIdle

\* ComputeBindingFactors(groupKey, slice, msg), then ComputeGroupCommitment and
\* ComputeChallenge, as Sign calls them.
DoComputeBindingFactors ==
  /\ pc = "helpers"
  /\ \E sorted \in SortOutcomes(run.slice) :
       \E bindingFactors \in { ComputeBindingFactors(HelperGroupKey, sorted, TestMessage) } :
         \E gc \in { ComputeGroupCommitment(sorted, bindingFactors) } :
           \E out \in { Some([bindingFactors |-> bindingFactors,
                              groupCommitment |-> gc.val,
                              challenge |-> ComputeChallenge(gc.val, HelperGroupKey,
                                                             TestMessage)]) } :
             /\ run' = [run EXCEPT !.slice = sorted,
                                   !.first.factors =
                                     IF @ = None THEN Some([arg |-> run.slice, out |-> out])
                                     ELSE @]
             /\ last' = HelperCall("ComputeBindingFactors", Some(run.slice), "ok", Nil, out)
  /\ HelperIdle

\* DeriveInterpolatingValue(L, xi) on the identifiers of the slice.
DoDeriveInterpolatingValue ==
  /\ pc = "helpers"
  /\ \E xi \in HelperIdentifiers :
       \E res \in { DeriveInterpolatingValue(IdentifiersOf(run.slice), xi) } :
         last' = HelperCall("DeriveInterpolatingValue",
                            Some([L |-> IdentifiersOf(run.slice), xi |-> xi]),
                            IF res.ok THEN "ok" ELSE "err", res.err,
                            IF res.ok THEN Some(res.val) ELSE None)
  /\ UNCHANGED run
  /\ HelperIdle

InitHelpers ==
  /\ dealer = None
  /\ st = [x \in Parties |-> None]
  /\ hist = [x \in Parties |-> NoHist]
  /\ last = NoCall
  /\ sharesOut = [i \in 1 .. MaxN |-> None]
  /\ pc = "helpers"
  /\ \E C \in HelperSlices :
       run = [slice |-> C, first |-> [encoded |-> None, factors |-> None]]

NextHelpers ==
  \/ DoPermute
  \/ DoEncodeGroupCommitmentList
  \/ DoParticipantsFromCommitmentList
  \/ DoComputeBindingFactors
  \/ DoDeriveInterpolatingValue

SpecHelpers == InitHelpers /\ [][NextHelpers]_vars

\* C12 as stated: EncodeGroupCommitmentList and ParticipantsFromCommitmentList
\* emit the entries in ascending order of identifier value, for identifiers
\* 1..n with n >= 256 too.
C12_AscendingByValue ==
  last.op \in { "EncodeGroupCommitmentList", "ParticipantsFromCommitmentList" } =>
    \A a \in 1 .. Len(run.slice) : \A b \in 1 .. Len(run.slice) :
      a < b => run.slice[a].Identifier <= run.slice[b].Identifier

\* C12 fails: the entry of identifier 256 is emitted before that of identifier 1.
C12_WideIdentifierFirst ==
  /\ last.op = "ParticipantsFromCommitmentList"
  /\ last.out = Some(<< WideIdentifier, 1 >>)

\* C13 as stated: on every commitment list, in every arrangement,
\* EncodeGroupCommitmentList returns what it returned first, and the binding
\* factors, the group commitment and the challenge are those computed first.
C13_PermutationInvariant ==
  /\ last.op = "EncodeGroupCommitmentList" => last.out = run.first.encoded[1].out
  /\ last.op = "ComputeBindingFactors" => last.out = run.first.factors[1].out

\* C13 amended: the same on every commitment list whose identifiers are
\* pairwise distinct.
C13_PermutationInvariantDistinct ==
  ~ HasDuplicate(IdentifiersOf(run.slice)) =>
    /\ last.op = "EncodeGroupCommitmentList" => last.out = run.first.encoded[1].out
    /\ last.op = "ComputeBindingFactors" => last.out = run.first.factors[1].out

\* C13 happens: the binding factors of a list of two identifiers are computed
\* again on another arrangement of the list, with the same result.
C13_Witness ==
  /\ last.op = "ComputeBindingFactors"
  /\ Len(run.slice) >= 2
  /\ ~ HasDuplicate(IdentifiersOf(run.slice))
  /\ last.arg[1] # run.first.factors[1].arg
  /\ last.out = run.first.factors[1].out

RECURSIVE LagrangeProduct(_, _)
\* The product over x_j in L, x_j # x_i, of x_j * (x_j - x_i)^-1.
LagrangeProduct(L, xi) ==
  IF L = << >> THEN 1
  ELSE IF Head(L) = xi THEN LagrangeProduct(Tail(L), xi)
  ELSE ScalarMul(ScalarMul(Head(L), ScalarInvert(ScalarSub(Head(L), xi))),
                 LagrangeProduct(Tail(L), xi))

\* C15: DeriveInterpolatingValue(L, xi) returns an error exactly when xi is not
\* in L or L holds an identifier twice, otherwise the product over x_j # x_i of
\* x_j * (x_j - x_i)^-1, and it leaves L as it was.
C15_InterpolatingValuePartition ==
  last.op = "DeriveInterpolatingValue" =>
    LET L == last.arg[1].L
        xi == last.arg[1].xi
        missing == \A k \in 1 .. Len(L) : L[k] # xi
        twice == \E a \in 1 .. Len(L) : \E b \in 1 .. Len(L) : a # b /\ L[a] = L[b]
    IN /\ last.kind = "err" <=> (missing \/ twice)
       /\ missing => last.err = "xi not in L"
       /\ (~ missing /\ twice) => last.err = "duplicate value in L"
       /\ ~ (missing \/ twice) => last.out = Some(LagrangeProduct(L, xi))
       /\ IdentifiersOf(run.slice) = L

\* C15 happens: the three outcomes, the last on a list that is not sorted.
C15_Witness ==
  /\ last.op = "DeriveInterpolatingValue"
  /\ last.kind = "ok"
  /\ last.arg[1].L = << WideIdentifier, 2 >>
  /\ last.arg[1].xi = 2
  /\ last.out = Some(LagrangeProduct(<< WideIdentifier, 2 >>, 2))

\* C14: a Sign on any State with a list in which two commitments carry the same
\* identifier returns an error and no share.
C14_DuplicateRejected ==
  (last.op = "Sign" /\ HasDuplicate(IdentifiersOf(last.arg[1]))) =>
    (last.kind = "err" /\ last.out = None)

\* C14 fails: on the State without a share Sign returned no error on such a list
\* and left a group commitment.
C14_DuplicateAccepted ==
  /\ last.op = "Sign"
  /\ HasDuplicate(IdentifiersOf(last.arg[1]))
  /\ ~ LastOnSigner
  /\ last.kind = "ok"
  /\ LastState.groupCommitment # None

\* C16: a Sign on a signer State whose identifier is under no commitment of the
\* list returns the error of the interpolation, xi not in L, and no share.
C16_NotAParticipant ==
  (/\ last.op = "Sign"
   /\ LastOnSigner
   /\ \A k \in 1 .. Len(last.arg[1]) :
        last.arg[1][k].Identifier # LastState.MyIdentifier[1]) =>
    (last.kind = "err" /\ last.err = "xi not in L" /\ last.out = None)

\* C16 happens: a signer that has committed signs a list of other identifiers.
C16_Witness ==
  /\ last.op = "Sign"
  /\ LastOnSigner
  /\ hist[last.x].committed
  /\ Len(last.arg[1]) >= 1
  /\ \A k \in 1 .. Len(last.arg[1]) :
       last.arg[1][k].Identifier # LastState.MyIdentifier[1]
  /\ last.err = "xi not in L"

\* C17: in the integration test the Sign on the State without a share, which
\* never committed, records the sorted list, the binding factors, the group
\* commitment and the challenge and returns no share and no error; its group
\* commitment is that of every signer, and its Aggregate returns it as R.
C17_AggregatorPath ==
  /\ (last.op = "Sign" /\ last.x = 0) =>
       /\ last.kind = "ok"
       /\ last.out = None
       /\ ~ hist[0].committed
       /\ st[0][1].Commitments # None
       /\ st[0][1].Commitments[1] \in SortOutcomes(last.arg[1])
       /\ st[0][1].bindingFactors # None
       /\ st[0][1].groupCommitment # None
       /\ st[0][1].challenge # None
  /\ (run.agg = 0 /\ pc \in { "check", "aggregate", "verify", "done" }) =>
       \A k \in 1 .. Len(run.order) :
         /\ st[run.order[k]][1].groupCommitment = st[0][1].groupCommitment
         /\ st[run.order[k]][1].challenge = st[0][1].challenge
  /\ (run.agg = 0 /\ last.op = "Aggregate") =>
       /\ last.kind = "ok"
       /\ last.out[1].R = st[run.order[1]][1].groupCommitment[1]

\* C17 happens: the State without a share has aggregated the shares of two
\* signers.
C17_Witness ==
  /\ run.agg = 0
  /\ last.op = "Aggregate"
  /\ last.kind = "ok"
  /\ Len(run.order) >= 2
  /\ st[0][1].MyNonce = None

C20_SignNotAtomic ==
  /\ (/\ last.op = "Sign"
      /\ LastOnSigner
      /\ last.err \in { "xi not in L", "duplicate value in L" }) =>
       /\ LastState.Commitments # None
       /\ LastState.Commitments[1] \in SortOutcomes(last.arg[1])
       /\ \E sorted \in SortOutcomes(last.arg[1]) :
            LET bindingFactors ==
                  ComputeBindingFactors(LastState.GroupKey, sorted, LastState.Message)
                gc == GroupCommitmentLoop(sorted, bindingFactors, ElementIdentity)
            IN /\ LastState.bindingFactors = Some(bindingFactors)
               /\ LastState.groupCommitment = Some(gc.val)
               /\ LastState.challenge =
                    Some(ComputeChallenge(gc.val, LastState.GroupKey, LastState.Message))
  /\ (/\ last.op = "Aggregate"
      /\ LastOnSigner
      /\ hist[last.x].sign = "err"
      /\ ~ hist[last.x].setGC) =>
       /\ last.kind = "ok"
       /\ last.out[1].R = LastState.groupCommitment[1]

\* C20 happens: a signer that has committed aggregates after its Sign failed.
C20_Witness ==
  /\ last.op = "Aggregate"
  /\ LastOnSigner
  /\ hist[last.x].committed
  /\ hist[last.x].sign = "err"
  /\ ~ hist[last.x].setGC
  /\ last.kind = "ok"

\* ------------------------------------------- one slice shared by two Signs
\* Two goroutines run Sign on two signer States with the same slice. Each reads
\* and writes the elements of the slice one at a time: sort.Slice on a slice
\* this short is an insertion sort whose swap is ps[j], ps[j-1] = ps[j-1], ps[j].
\* run.slice is the backing array, run.input the slice as the caller built it,
\* run.g the position of each goroutine, run.overlap whether a goroutine has
\* touched the slice while the other was inside Sign.
Goroutines == { 1, 2 }

OtherGoroutine(g) == 3 - g

\* C with the elements at k and k+1 exchanged.
AdjacentSwapped(C, k) ==
  [m \in 1 .. Len(C) |-> IF m = k THEN C[k + 1] ELSE IF m = k + 1 THEN C[k] ELSE C[m]]

\* The slices the caller shares: two or more commitments under distinct
\* identifiers, in sorted order or with one adjacent pair out of order.
RaceSlices ==
  { C \in HelperSlices :
      /\ Len(C) >= 2
      /\ ~ HasDuplicate(IdentifiersOf(C))
      /\ \/ IsSortedByIdentifier(C)
         \/ \E k \in 1 .. (Len(C) - 1) : IsSortedByIdentifier(AdjacentSwapped(C, k)) }

\* The passes of Sign over the slice, in the order of the code:
\* 1 EncodeGroupCommitmentList (sort, range), 2 the range of
\* ComputeBindingFactors, 3 the range of ComputeGroupCommitment,
\* 4 ParticipantsFromCommitmentList (sort, range).
Passes == << "EncodeGroupCommitmentList", "ComputeBindingFactors",
             "ComputeGroupCommitment", "ParticipantsFromCommitmentList" >>

PassSorts(pass) == pass \in { 1, 4 }

NoFrame ==
  [at |-> "idle", pass |-> 0, i |-> 0, j |-> 0, ra |-> None, rb |-> None,
   seen |-> << >>, reads |-> << >>]

\* The goroutine enters pass number pass.
EnterPass(f, pass) ==
  IF pass > Len(Passes)
  THEN [f EXCEPT !.at = "done", !.pass = 0, !.i = 0, !.j = 0]
  ELSE IF PassSorts(pass)
       THEN [f EXCEPT !.at = "less1", !.pass = pass, !.i = 2, !.j = 2]
       ELSE [f EXCEPT !.at = "range", !.pass = pass, !.i = 1, !.j = 0]

\* The inner loop of the insertion sort ended: next i, or the range loop.
AfterInner(f, n) ==
  IF f.i + 1 > n
  THEN [f EXCEPT !.at = "range", !.i = 1, !.j = 0, !.ra = None, !.rb = None]
  ELSE [f EXCEPT !.at = "less1", !.i = f.i + 1, !.j = f.i + 1,
                 !.ra = None, !.rb = None]

\* After swap(j, j-1): j--, and the loop goes on while j > the first index.
AfterSwap(f, n) ==
  IF f.j - 1 > 1
  THEN [f EXCEPT !.at = "less1", !.j = f.j - 1, !.ra = None, !.rb = None]
  ELSE AfterInner(f, n)

\* A second store that leaves ps[j-1] as it was.
SwapStoreSecondSkipped(slice, j, ra) == slice

\* The two stores of ps[j], ps[j-1] = ps[j-1], ps[j], with rb read from
\* ps[j-1] and ra from ps[j].
SwapStoreFirst(slice, j, rb) == [slice EXCEPT ![j] = rb]

SwapStoreSecond(slice, j, ra) == [slice EXCEPT ![j - 1] = ra]

RaceIdle == UNCHANGED << dealer, st, hist, last, sharesOut, pc >>

\* A step of goroutine g to frame f on the slice as given.
RaceStep(g, f, slice) ==
  run' = [run EXCEPT !.g[g] = f, !.slice = slice,
                     !.overlap = @ \/ run.g[OtherGoroutine(g)].at \notin { "idle", "done" }]

\* go states[g].Sign(commitments)
RaceStart(g) ==
  /\ pc = "race"
  /\ run.g[g].at = "idle"
  /\ run' = [run EXCEPT !.g[g] = EnterPass(run.g[g], 1)]
  /\ RaceIdle

\* The less function of sort.Slice on (j, j-1): two reads of the slice.
SortCompare(g) ==
  /\ pc = "race"
  /\ LET f == run.g[g]
         n == Len(run.slice)
     IN \/ /\ f.at = "less1"
           /\ RaceStep(g, [f EXCEPT !.at = "less2", !.ra = Some(run.slice[f.j])], run.slice)
        \/ /\ f.at = "less2"
           /\ RaceStep(g, IF IdentifierLess(f.ra[1], run.slice[f.j - 1])
                          THEN [f EXCEPT !.at = "swap1", !.ra = None]
                          ELSE AfterInner(f, n),
                       run.slice)
  /\ RaceIdle

\* The swap of sort.Slice on (j, j-1): two reads, then two stores.
SortSwap(g) ==
  /\ pc = "race"
  /\ LET f == run.g[g]
         n == Len(run.slice)
     IN \/ /\ f.at = "swap1"
           /\ RaceStep(g, [f EXCEPT !.at = "swap2", !.rb = Some(run.slice[f.j - 1])], run.slice)
        \/ /\ f.at = "swap2"
           /\ RaceStep(g, [f EXCEPT !.at = "store1", !.ra = Some(run.slice[f.j])], run.slice)
        \/ /\ f.at = "store1"
           /\ RaceStep(g, [f EXCEPT !.at = "store2"],
                       SwapStoreFirst(run.slice, f.j, f.rb[1]))
        \/ /\ f.at = "store2"
           /\ RaceStep(g, AfterSwap(f, n),
                       SwapStoreSecond(run.slice, f.j, f.ra[1]))
  /\ RaceIdle

\* One turn of a for-range loop over the slice; after the last the next pass.
RangeRead(g) ==
  /\ pc = "race"
  /\ LET f == run.g[g]
         n == Len(run.slice)
         seen == Append(f.seen, run.slice[f.i])
     IN /\ f.at = "range"
        /\ RaceStep(g, IF f.i < n
                       THEN [f EXCEPT !.i = f.i + 1, !.seen = seen]
                       ELSE EnterPass([f EXCEPT !.seen = << >>,
                                                !.reads = Append(f.reads, seen)],
                                      f.pass + 1),
                    run.slice)
  /\ RaceIdle

InitRace ==
  /\ dealer = None
  /\ st = [x \in Parties |-> None]
  /\ hist = [x \in Parties |-> NoHist]
  /\ last = NoCall
  /\ sharesOut = [i \in 1 .. MaxN |-> None]
  /\ pc = "race"
  /\ \E C \in RaceSlices :
       run = [slice |-> C, input |-> C, g |-> [g \in Goroutines |-> NoFrame],
              overlap |-> FALSE]

NextRace ==
  \E g \in Goroutines :
    \/ RaceStart(g)
    \/ SortCompare(g)
    \/ SortSwap(g)
    \/ RangeRead(g)

SpecRace == InitRace /\ [][NextRace]_vars

\* What a Sign derives from the lists its four passes read, on the State of the
\* participant xi.
RaceBindingFactors(reads) ==
  LET rhoInputPrefix == ElementBytes(HelperGroupKey) \o H4(TestMessage)
                        \o H5(EncodeLoop(reads[1]))
  IN [k \in 1 .. Len(reads[2]) |->
        [Identifier |-> reads[2][k].Identifier,
         Factor |-> H1(rhoInputPrefix \o ScalarBytes(reads[2][k].Identifier))]]

RaceDerived(reads, xi) ==
  [bindingFactors |-> RaceBindingFactors(reads),
   groupCommitment |-> ComputeGroupCommitment(reads[3], RaceBindingFactors(reads)),
   lambda |-> DeriveInterpolatingValue(IdentifiersOf(reads[4]), xi)]

\* The sorted list of the commitments the caller passed, and the reads of a
\* Sign that runs alone.
RaceCanonical == CHOOSE C \in SortOutcomes(run.input) : TRUE

SequentialReads == [k \in 1 .. Len(Passes) |-> RaceCanonical]

\* Goroutine g signs for the participant of the g-th commitment of the caller.
RaceIdentifier(g) == run.input[g].Identifier

\* C19: a Sign that ran with no step of the other goroutine inside it read the
\* sorted list in every pass; and a Sign whose pass read another list derives
\* other values than a Sign that runs alone: other binding factors when the
\* list it encoded differs, no interpolating value when the list of
\* participants holds an entry twice.
C19_SharedSliceRace ==
  \A g \in Goroutines :
    run.g[g].at = "done" =>
      /\ ~ run.overlap => run.g[g].reads = SequentialReads
      /\ run.g[g].reads[1] # RaceCanonical =>
           RaceBindingFactors(run.g[g].reads) # RaceBindingFactors(SequentialReads)
      /\ HasDuplicate(IdentifiersOf(run.g[g].reads[4])) =>
           /\ RaceDerived(SequentialReads, RaceIdentifier(g)).lambda.ok
           /\ ~ RaceDerived(run.g[g].reads, RaceIdentifier(g)).lambda.ok

\* C19 happens: a Sign has encoded a list with one commitment twice and another
\* missing, and its binding factors and group commitment are not those of a
\* Sign that runs alone.
C19_Witness ==
  \E g \in Goroutines :
    /\ run.g[g].at = "done"
    /\ run.overlap
    /\ HasDuplicate(IdentifiersOf(run.g[g].reads[1]))
    /\ \E k \in 1 .. Len(run.input) :
         \A m \in 1 .. Len(run.g[g].reads[1]) : run.g[g].reads[1][m] # run.input[k]
    /\ RaceDerived(run.g[g].reads, RaceIdentifier(g)).bindingFactors
         # RaceDerived(SequentialReads, RaceIdentifier(g)).bindingFactors
    /\ RaceDerived(run.g[g].reads, RaceIdentifier(g)).groupCommitment
         # RaceDerived(SequentialReads, RaceIdentifier(g)).groupCommitment

\* ------------------------------------------- the shares an aggregator receives
\* After Round 2 of a ceremony of honest signers the aggregating State takes
\* signature shares from the network, as in the signing example of the README:
\* run.shares is the slice it will pass to Aggregate, run.checked one entry for
\* every message received: the share, how VerifySignatureShare answered
\* ("skipped" when the caller did not ask) and whether the share was kept,
\* run.verifies whether the caller verifies what it receives. The messages come
\* in the order of the identifiers of their shares.

\* The ceremony up to the end of Round 2, every rand.Read of which returned rnd:
\* the States, the sorted commitment list and the shares of the signers.
RoundTwoDone(out, order, rnd) ==
  LET signers == { order[k] : k \in 1 .. Len(order) }
      fresh(x) == NewState(out.Participants, out.GroupPublicKey, TestMessage,
                           ShareOf(out, x))
      committed(x) == Commit(fresh(x), rnd).state
      commitments == [k \in 1 .. Len(order) |-> committed(order[k]).MyCommitment[1]]
      sorted == CHOOSE C \in SortOutcomes(commitments) : TRUE
      signed(x) == Sign(IF x = 0 THEN fresh(0) ELSE committed(x), sorted, sorted)
  IN [commitments |-> sorted,
      st |-> [x \in Parties |-> IF x = 0 \/ x \in signers THEN Some(signed(x).state)
                                ELSE None],
      sharesOut |-> [i \in 1 .. MaxN |-> IF i \in signers THEN signed(i).out ELSE None],
      hist |-> [x \in Parties |->
                  IF x \in signers
                  THEN [NoHist EXCEPT !.committed = TRUE, !.sign = "ok",
                                      !.nonceShares = 1, !.calls = 2]
                  ELSE IF x = 0 THEN [NoHist EXCEPT !.sign = "ok", !.calls = 1]
                  ELSE NoHist]]

\* What the network delivers: the shares of the signers, as returned or with the
\* scalar moved up or down by one.
ReceivedShares ==
  ReturnedShares
  \cup { [sh EXCEPT !.Share = ScalarAdd(@, 1)] : sh \in ReturnedShares }
  \cup { [sh EXCEPT !.Share = ScalarSub(@, 1)] : sh \in ReturnedShares }

\* The share can be the next message.
InOrderOfIdentifier(share) ==
  run.checked = << >> \/ run.checked[Len(run.checked)].share.Identifier <= share.Identifier

\* One turn of the loop of the README: the share is verified and kept if valid.
ReceiveVerified ==
  /\ pc = "receive"
  /\ run.verifies
  /\ Len(run.checked) < MaxList
  /\ \E share \in { sh \in ReceivedShares : InOrderOfIdentifier(sh) } :
       \E sorted \in SortOutcomes(st[run.agg][1].Commitments[1]) :
         /\ CallVerifySignatureShare(run.agg, share, sorted)
         /\ LET kept == last'.kind = "ok" /\ last'.out = Some(TRUE)
            IN run' = [run EXCEPT
                         !.shares = IF kept THEN Append(@, share) ELSE @,
                         !.checked = Append(@, [share |-> share, kind |-> last'.kind,
                                                out |-> last'.out, kept |-> kept])]
  /\ pc' = IF last'.kind # "ok" THEN "failed" ELSE "receive"
  /\ UNCHANGED dealer

\* A caller that skips the verification appends the share as received.
ReceiveUnverified ==
  /\ pc = "receive"
  /\ ~ run.verifies
  /\ Len(run.checked) < MaxList
  /\ \E share \in { sh \in ReceivedShares : InOrderOfIdentifier(sh) } :
       run' = [run EXCEPT
                 !.shares = Append(@, share),
                 !.checked = Append(@, [share |-> share, kind |-> "skipped",
                                        out |-> None, kept |-> TRUE])]
  /\ UNCHANGED << dealer, pc >>
  /\ TestIdle

\* state.Aggregate(shares) on the shares kept.
ReceiveAggregate ==
  /\ pc = "receive"
  /\ CallAggregate(run.agg, run.shares)
  /\ run' = [run EXCEPT !.sig = last'.out]
  /\ pc' = IF last'.kind # "ok" THEN "failed" ELSE "verify"
  /\ UNCHANGED dealer

\* The signers of the ceremony: the first m participants, m the threshold or more.
ReceiveOrders == { [k \in 1 .. m |-> k] : m \in dealer[1].t .. NumParties }

\* The reads of rand.Read in the Commits of the ceremony.
ReceiveRandReads == { r \in RandReads : r.ok /\ r.r1 = MaxRand }

InitReceive ==
  \E n \in 1 .. MaxN : \E t \in 1 .. n : \E draws \in KeygenDraws(t) :
    \E rnd \in ReceiveRandReads :
      /\ dealer = Some([n |-> n, t |-> t, draws |-> draws,
                        out |-> Keygen(n, t, draws[1], SubSeq(draws, 2, t))])
      /\ \E order \in ReceiveOrders : \E agg \in { 0, order[1] } :
           \E verifies \in BOOLEAN :
             LET done == RoundTwoDone(Out, order, rnd)
             IN /\ st = done.st
                /\ hist = done.hist
                /\ sharesOut = done.sharesOut
                /\ run = [order |-> order, agg |-> agg,
                          commitments |-> done.commitments, shares |-> << >>,
                          vss |-> << >>, checked |-> << >>, sig |-> None,
                          valid |-> None, verifies |-> verifies]
      /\ last = NoCall
      /\ pc = "receive"

NextReceive ==
  \/ ReceiveVerified
  \/ ReceiveUnverified
  \/ ReceiveAggregate
  \/ TestEd25519Verify

SpecReceive == InitReceive /\ [][NextReceive]_vars

\* The slice passed to Aggregate holds one share for every identifier of the
\* commitment list and no other.
OneSharePerIdentifier ==
  /\ Len(run.shares) = Len(run.commitments)
  /\ \A k \in 1 .. Len(run.commitments) :
       \E m \in 1 .. Len(run.shares) :
         run.shares[m].Identifier = run.commitments[k].Identifier

\* VerifySignatureShare on the aggregating State answers true for the share.
ShareVerifies(share) ==
  VerifySignatureShare(st[run.agg][1], share, st[run.agg][1].Commitments[1]).out
    = Some(TRUE)

\* The sum of the shares the signers returned.
ReturnedSum ==
  SumShares([k \in 1 .. Len(run.order) |-> sharesOut[run.order[k]][1]])

\* Aggregate does not look at the shares: it returns the group commitment of
\* the State and their sum, without error.
AggregateSumsBlindly ==
  last.op = "Aggregate" =>
    /\ last.kind = "ok"
    /\ last.out = Some([R |-> st[run.agg][1].groupCommitment[1],
                        Z |-> SumShares(run.shares)])

\* C21 as stated: Aggregate returns a signature for any slice of shares; the
\* signature satisfies z*G == R + c*PK when the slice holds one share for every
\* identifier of C and VerifySignatureShare is true for each, and does not
\* satisfy it when a share of C is missing, a share is there twice or
\* VerifySignatureShare is false for a share.
C21_VerifyThenAggregate ==
  /\ AggregateSumsBlindly
  /\ pc = "done" =>
       run.valid = Some(/\ OneSharePerIdentifier
                        /\ \A m \in 1 .. Len(run.shares) : ShareVerifies(run.shares[m]))

\* C21 amended: the signature satisfies the equation when the slice holds one
\* verified share for every identifier of C, and for any other slice exactly
\* when the sum of its shares is the sum of the shares the signers returned.
C21_VerifyThenAggregateAmended ==
  /\ AggregateSumsBlindly
  /\ pc = "done" =>
       /\ (/\ OneSharePerIdentifier
           /\ \A m \in 1 .. Len(run.shares) : ShareVerifies(run.shares[m])) =>
            run.valid = Some(TRUE)
       /\ run.valid = Some(SumShares(run.shares) = ReturnedSum)

\* C21 happens, and as stated fails: the caller skipped the verification and
\* passed one share for each of two signers, both changed so that
\* VerifySignatureShare is false for each, and the signature of Aggregate is
\* valid; no share, secret or group commitment of the ceremony is zero.
C21_CancellingShares ==
  /\ pc = "done"
  /\ Len(run.shares) >= 2
  /\ OneSharePerIdentifier
  /\ \A m \in 1 .. Len(run.shares) : ~ ShareVerifies(run.shares[m])
  /\ \A k \in 1 .. Len(run.checked) : run.checked[k].kind = "skipped"
  /\ \A k \in 1 .. Len(run.order) : sharesOut[run.order[k]][1].Share # 0
  /\ Out.GroupPublicKey # ElementIdentity
  /\ run.sig[1].R # ElementIdentity
  /\ run.valid = Some(TRUE)

====
